---- MODULE Spec2Model ----
(***************************************************************************)
(* Model of ssh_monitor (src/main.py): SSHMonitor sessions, the probes     *)
(* run by format_status_line, the ThreadPoolExecutor of                    *)
(* MultiServerMonitor, and the main thread (connect_all, monitor_all,      *)
(* disconnect_all, main).                                                  *)
(*                                                                         *)
(* Four specifications share the definitions below:                        *)
(*   Spec         the program as main() runs it: one task frame per host,  *)
(*                the pool, the main thread and one user interrupt;        *)
(*   SessionSpec  the SSHMonitor class on its own: several threads call    *)
(*                execute_command and disconnect on one session;           *)
(*   LiveSpec     the program with no interrupt, commands that may hang    *)
(*                and the fairness of its threads;                         *)
(*   DiskSpec     get_disk_usage and the root-disk selection applied to    *)
(*                every output of a few lines.                             *)
(***************************************************************************)
EXTENDS Integers, Sequences, FiniteSets, TLC

\* ------------------------------------------------------------------ bounds
\* number of servers in config.json (len(self.monitors))
NumHosts == 3
\* width of the ThreadPoolExecutor; main.py:172 sets 10, scaled down here so
\* that NumHosts > max_workers stays within reach of the model checker
max_workers == 2
\* how many times the environment drops an established transport
MaxDrops == 1
\* SessionSpec only: SSHClient objects a session may create before the
\* callers stop issuing new calls
MaxHandles == 3
\* SessionSpec only: calls of close() on a session before the callers stop
\* calling disconnect()
MaxCloses == 2

\* DiskSpec only: the most lines the disk command prints
MaxLines == 3

Hosts == 1..NumHosts
\* task frames: in Spec frame t runs the task submitted for host t; in
\* SessionSpec the frames are the calling threads
Threads == 1..NumHosts

Probes == {"cpu", "mem", "disk"}

\* ------------------------------------------------------- remote outputs
\* what the remote shell may print for each probe, as token sequences
CpuOutputs == {"12.5", "", "us,"}
MemOutputs ==
    { <<"8000", "4000", "4000">>, <<"0", "0", "0">>, <<"8000", "4000">>,
      <<"total", "used", "free">>, << >> }
L_root == <<"/dev/sda1", "100G", "50G", "50G", "50%", "/">>
L_data == <<"/dev/sda2", "20G", "2G", "18G", "10%", "/data">>
L_short == <<"/dev/sda3", "5G", "1G">>
L_bad == <<"/dev/sda4", "1G", "1G", "0", "-", "/mnt">>
DiskOutputs == { <<L_root, L_data>>, <<L_short>>, <<L_bad>> }
\* DiskSpec: further lines, a second one for "/" and for "/data", and every
\* output of up to MaxLines lines
L_root2 == <<"/dev/sdb1", "200G", "20G", "180G", "10%", "/">>
L_data2 == <<"/dev/sdb2", "40G", "4G", "36G", "50%", "/data">>
DfLines == {L_root, L_root2, L_data, L_data2, L_short, L_bad}
DfOutputs == UNION {[1..n -> DfLines] : n \in 0..MaxLines}

Outputs(cmd) ==
    CASE cmd = "cpu" -> CpuOutputs
      [] cmd = "mem" -> MemOutputs
      [] OTHER -> DiskOutputs

\* float(s): the value in tenths, or a ValueError
ParseFloat(s) ==
    CASE s = "12.5" -> [ok |-> TRUE, val |-> 125]
      [] s = "50" -> [ok |-> TRUE, val |-> 500]
      [] s = "10" -> [ok |-> TRUE, val |-> 100]
      [] OTHER -> [ok |-> FALSE, val |-> 0]

\* int(s)
ParseInt(s) ==
    CASE s = "8000" -> [ok |-> TRUE, val |-> 8000]
      [] s = "4000" -> [ok |-> TRUE, val |-> 4000]
      [] s = "0" -> [ok |-> TRUE, val |-> 0]
      [] OTHER -> [ok |-> FALSE, val |-> 0]

\* s.strip('%')
StripPercent(s) ==
    CASE s = "50%" -> "50"
      [] s = "10%" -> "10"
      [] OTHER -> s

NoValue == [ok |-> FALSE]

\* get_cpu_usage applied to the command's output
get_cpu_usage(out) ==
    IF ParseFloat(out).ok THEN [ok |-> TRUE, val |-> ParseFloat(out).val]
    ELSE NoValue

\* get_memory_usage applied to the command's output (values in KB; the
\* percentage by integer division)
get_memory_usage(out) ==
    IF Len(out) # 3 THEN NoValue
    ELSE IF \E i \in 1..3 : ~ParseInt(out[i]).ok THEN NoValue
    ELSE LET total == ParseInt(out[1]).val
             used == ParseInt(out[2]).val
             free == ParseInt(out[3]).val
         IN  IF total = 0 THEN NoValue
             ELSE [ok |-> TRUE,
                   val |-> [total |-> total, used |-> used, free |-> free,
                            usage_percent |-> (used * 100) \div total]]

\* disk_info[mount_point] = entry on an insertion-ordered dict: a known key
\* keeps its place and takes the new entry, a new key goes last
DictSet(d, k, e) ==
    IF \E i \in 1..Len(d) : d[i].key = k
    THEN [i \in 1..Len(d) |-> IF d[i].key = k THEN [key |-> k, entry |-> e] ELSE d[i]]
    ELSE Append(d, [key |-> k, entry |-> e])

\* the loop of get_disk_usage over the lines from index i on; d is disk_info
RECURSIVE DiskLoop(_, _, _)
DiskLoop(lines, i, d) ==
    IF i > Len(lines) THEN [ok |-> TRUE, val |-> d]
    ELSE LET parts == lines[i]
         IN  IF Len(parts) >= 6
             THEN IF ParseFloat(StripPercent(parts[5])).ok
                  THEN DiskLoop(lines, i + 1,
                         DictSet(d, parts[6],
                           [filesystem |-> parts[1], total |-> parts[2],
                            used |-> parts[3], available |-> parts[4],
                            usage_percent |-> ParseFloat(StripPercent(parts[5])).val]))
                  ELSE NoValue
             ELSE DiskLoop(lines, i + 1, d)

get_disk_usage(out) == DiskLoop(out, 1, << >>)

\* a selection that takes the first entry whatever its key
RootDisk_m(d) ==
    IF Len(d) = 0 THEN NoValue ELSE [ok |-> TRUE, val |-> d[1].entry]

\* disk_usage.get('/', disk_usage.get(list(disk_usage.keys())[0])): the
\* default is evaluated first, so an empty dict is an IndexError
RootDisk(d) ==
    IF Len(d) = 0 THEN NoValue
    ELSE IF \E i \in 1..Len(d) : d[i].key = "/"
         THEN [ok |-> TRUE,
               val |-> d[CHOOSE i \in 1..Len(d) : d[i].key = "/"].entry]
         ELSE [ok |-> TRUE, val |-> d[1].entry]

\* ------------------------------------------------------------------- state
VARIABLES
    client,         \* session -> 0 for self.client = None, else the number of
                    \*   the SSHClient object self.client refers to
    active,         \* session -> self.client's transport exists and is_active()
    lock,           \* session -> the thread holding self._lock, or 0
    closeCalls,     \* session -> calls of self.client.close() so far
    broken,         \* session -> an execute_command call raised on a transport
                    \*   failure and no connection attempt was made since
    task,           \* thread -> its frame (see IdleFrame)
    sessionOf,      \* thread -> the session its task or call works on
    work_queue,     \* the executor's queue of submitted, unstarted tasks
    mpc,            \* the main thread's position
    idx,            \* the main thread's index into self.monitors
    server_status,  \* monitor_all: <<monitor, status>> in collection order
    printed,        \* the status lines printed in the current cycle
    interrupted,    \* the user's interrupt has been delivered
    raised,         \* the exception the main thread is unwinding with
    yielded,        \* the futures as_completed has handed to the main thread
    escaped,        \* a call of disconnect() has let an exception escape
    drops,          \* transports dropped by the environment so far
    df_lines,       \* DiskSpec: the lines of the disk command's output, split
    disk_usage,     \* DiskSpec: what get_disk_usage returned or raised
    status_line     \* DiskSpec: what format_status_line returned

sessVars == <<client, active, lock, closeCalls, broken>>
mainVars == <<mpc, idx, server_status, printed, interrupted, raised, yielded,
              escaped>>
diskVars == <<df_lines, disk_usage, status_line>>
vars == <<client, active, lock, closeCalls, broken, task, sessionOf,
          work_queue, mpc, idx, server_status, printed, interrupted, raised,
          yielded, escaped, drops, df_lines, disk_usage, status_line>>

\* the "?" line of format_status_line (lines 147 and 166)
UnknownRow ==
    [live |-> FALSE, cpu |-> 0, used |-> 0, total |-> 0,
     disk_used |-> "?", disk_total |-> "?"]

\* the line of format_status_line with live data (lines 160-163), as the
\* values it is formatted from
LiveRow(cpu, mem, root) ==
    [live |-> TRUE, cpu |-> cpu, used |-> mem.used, total |-> mem.total,
     disk_used |-> root.used, disk_total |-> root.total]

NoMem == [total |-> 0, used |-> 0, free |-> 0, usage_percent |-> 0]
NoResult == [tag |-> "none", row |-> UnknownRow]

\* no disk command's output is being looked at
NoDict == [tag |-> "none", val |-> << >>]
DiskIdle ==
    /\ df_lines = << >>
    /\ disk_usage = NoDict
    /\ status_line = NoResult

\* a thread's frame: the task or call it runs (kind), its position (pc), the
\* command in hand (cmd), format_status_line's locals (cpu, mem), the value
\* its future or call ended with (res), and, for the call of
\* execute_command in progress, the connection attempts it made (attempts),
\* what its line-84 check found (sawInactive) and the client the session
\* had then (client0)
IdleFrame ==
    [kind |-> "none", pc |-> "idle", cmd |-> "cpu", cpu |-> 0, mem |-> NoMem,
     res |-> NoResult, attempts |-> 0, sawInactive |-> FALSE, client0 |-> 0]

\* executor.submit(fn, monitor): a new future, its task not yet started
SubmittedFrame(kind) == [IdleFrame EXCEPT !.kind = kind, !.pc = "queued"]

\* a task's function returned: its future holds the result
Finished(f, tag, row) ==
    [f EXCEPT !.pc = "done", !.res = [tag |-> tag, row |-> row],
              !.cmd = "cpu", !.cpu = 0, !.mem = NoMem,
              !.attempts = 0, !.sawInactive = FALSE, !.client0 = 0]

\* the condition of lines 51, 84 and 146
IsActive(s) == client[s] # 0 /\ active[s]

\* ------------------------------------------------- SSHMonitor: the frames
\* format_status_line without its handler: the exception ends the task
FslExcept_m(f) == Finished(f, "exc", UnknownRow)

\* except Exception of format_status_line (lines 164-166): the "?" line
FslExcept(f) == Finished(f, "row", UnknownRow)

\* probes that swallow the exception of execute_command and let
\* format_status_line go on to the next one
AfterRaise_m(f) ==
    IF f.kind = "poll"
    THEN [f EXCEPT !.pc = "x_lock", !.cmd = IF f.cmd = "cpu" THEN "mem" ELSE "disk"]
    ELSE [IdleFrame EXCEPT !.kind = f.kind,
                           !.res = [tag |-> "exc", row |-> UnknownRow]]

\* an exception leaves execute_command (line 98) into the frame that called
\* it: format_status_line's handler, or the calling thread
AfterRaise(f) ==
    IF f.kind = "poll" THEN FslExcept(f)
    ELSE [IdleFrame EXCEPT !.kind = f.kind,
                           !.res = [tag |-> "exc", row |-> UnknownRow]]

\* execute_command returns out (line 95) into the frame that called it:
\* lines 103, 109 and 124-141 parse it, lines 149-163 go on to the next
\* probe or build the line
AfterReturn(f, out) ==
    IF f.kind # "poll"
    THEN [IdleFrame EXCEPT !.kind = f.kind,
                           !.res = [tag |-> "out", row |-> UnknownRow]]
    ELSE CASE f.cmd = "cpu" ->
                IF get_cpu_usage(out).ok
                THEN [f EXCEPT !.cpu = get_cpu_usage(out).val,
                               !.cmd = "mem", !.pc = "x_lock"]
                ELSE FslExcept(f)
           [] f.cmd = "mem" ->
                IF get_memory_usage(out).ok
                THEN [f EXCEPT !.mem = get_memory_usage(out).val,
                               !.cmd = "disk", !.pc = "x_lock"]
                ELSE FslExcept(f)
           [] OTHER ->
                IF get_disk_usage(out).ok /\ RootDisk(get_disk_usage(out).val).ok
                THEN Finished(f, "row",
                       LiveRow(f.cpu, f.mem, RootDisk(get_disk_usage(out).val).val))
                ELSE FslExcept(f)

\* connect() returns into the frame that called it: connect_server returns
\* True (line 225), execute_command goes on to line 88
AfterConnect(f) ==
    IF f.kind = "connect" THEN Finished(f, "True", UnknownRow)
    ELSE [f EXCEPT !.pc = "x_exec"]

\* connect() that tries again after a failure instead of raising
AfterConnectRaise_m(f) == [f EXCEPT !.pc = "c_wait", !.attempts = f.attempts + 1]

\* connect() raises (line 69) into the frame that called it: connect_server
\* returns False (lines 226-228), execute_command re-raises (lines 96-98)
AfterConnectRaise(f) ==
    IF f.kind = "connect" THEN Finished(f, "False", UnknownRow)
    ELSE AfterRaise(f)

\* execute_command without the lock
LockFree_m(s) == TRUE

\* with self._lock (line 82) can be entered
LockFree(s) == lock[s] = 0

\* leaving the with block of line 82, by return or by exception
Release(t, s) == [lock EXCEPT ![s] = 0]

\* --------------------------------------------------- SSHMonitor: the steps
\* Steps that only read or write the thread's own frame are joined to the
\* step before them: taking the lock with the check of line 84, that check
\* with the check of line 51 (nothing connects the session in between), a
\* return with the parsing of the value returned.

\* connect() that keeps the SSHClient object it has
NewClient_m(s) == IF client[s] = 0 THEN 1 ELSE client[s]

\* line 55: self.client = paramiko.SSHClient(), a new object
NewClient(s) == client[s] + 1

\* lines 51-56 of connect(), entered by thread t with frame f: return when
\* the session is active, else take a new client and start connecting
ConnectEnter(t, s, f) ==
    IF IsActive(s)
    THEN /\ task' = [task EXCEPT ![t] = AfterConnect(f)]
         /\ UNCHANGED <<client, active, broken>>
    ELSE /\ client' = [client EXCEPT ![s] = NewClient(s)]
         /\ active' = [active EXCEPT ![s] = FALSE]
         /\ broken' = [broken EXCEPT ![s] = FALSE]
         /\ task' = [task EXCEPT ![t] = [f EXCEPT !.pc = "c_wait",
                                                  !.attempts = f.attempts + 1]]

\* execute_command without the reconnect of lines 84-86
NeedsConnect_m(s) == FALSE

\* the condition of line 84: execute_command reconnects first
NeedsConnect(s) == ~IsActive(s)

\* lines 82-86: acquire self._lock, then reconnect when the connection is
\* absent or inactive, else go on to the command
XEnter(t) ==
    LET s == sessionOf[t] IN
    /\ task[t].pc = "x_lock"
    /\ LockFree(s)
    /\ lock' = [lock EXCEPT ![s] = t]
    /\ IF NeedsConnect(s)
       THEN ConnectEnter(t, s, [task[t] EXCEPT !.attempts = 0,
                                               !.sawInactive = ~IsActive(s),
                                               !.client0 = client[s]])
       ELSE /\ task' = [task EXCEPT ![t] = [@ EXCEPT !.pc = "x_exec",
                                                      !.attempts = 0,
                                                      !.sawInactive = ~IsActive(s),
                                                      !.client0 = client[s]]]
            /\ UNCHANGED <<client, active, broken>>
    /\ UNCHANGED <<closeCalls, sessionOf, work_queue, mainVars, drops, diskVars>>

\* lines 57-69 of connect(): self.client.connect(...) succeeds or raises
CWait(t) ==
    LET s == sessionOf[t] IN
    /\ task[t].pc = "c_wait"
    /\ \E ok \in BOOLEAN :
         IF ok
         THEN /\ active' = [active EXCEPT ![s] = TRUE]
              /\ task' = [task EXCEPT ![t] = AfterConnect(@)]
              /\ lock' = lock
         ELSE /\ active' = active
              /\ task' = [task EXCEPT ![t] = AfterConnectRaise(@)]
              /\ lock' = IF task[t].kind = "connect" THEN lock ELSE Release(t, s)
    /\ UNCHANGED <<client, closeCalls, broken, sessionOf, work_queue, mainVars,
                   drops, diskVars>>

\* lines 88-98: the command runs on the connection; it returns its output,
\* or the transport fails under it, or the command fails on a live transport
XExec(t) ==
    LET s == sessionOf[t] IN
    /\ task[t].pc = "x_exec"
    /\ lock' = Release(t, s)
    /\ IF ~IsActive(s)
       THEN /\ task' = [task EXCEPT ![t] = AfterRaise(@)]
            /\ broken' = [broken EXCEPT ![s] = TRUE]
            /\ active' = active
       ELSE \E outcome \in {"ok", "transport", "error"} :
              CASE outcome = "ok" ->
                     /\ \E out \in Outputs(task[t].cmd) :
                          task' = [task EXCEPT ![t] = AfterReturn(@, out)]
                     /\ UNCHANGED <<active, broken>>
                [] outcome = "transport" ->
                     /\ task' = [task EXCEPT ![t] = AfterRaise(@)]
                     /\ active' = [active EXCEPT ![s] = FALSE]
                     /\ broken' = [broken EXCEPT ![s] = TRUE]
                [] OTHER ->
                     /\ task' = [task EXCEPT ![t] = AfterRaise(@)]
                     /\ UNCHANGED <<active, broken>>
    /\ UNCHANGED <<client, closeCalls, sessionOf, work_queue, mainVars, drops,
                   diskVars>>

\* disconnect() without its try
DisconnectEscapes_m(closeRaised) == closeRaised

\* the try of lines 74-78 of disconnect() lets an exception of close()
\* escape to the caller
DisconnectEscapes(closeRaised) == FALSE

\* lines 73-75 of disconnect(): self.client.close() when there is a client.
\* A close() that raises leaves the transport as it was (one that raises
\* after closing it leaves the state of a close() that returned)
DisconnectActive(s, closeRaised) ==
    IF client[s] = 0 \/ closeRaised THEN active
    ELSE [active EXCEPT ![s] = FALSE]

\* the calls of close() after disconnect() on session s
DisconnectCloseCalls(s) ==
    IF client[s] = 0 THEN closeCalls
    ELSE [closeCalls EXCEPT ![s] = @ + 1]

\* the environment: an established transport goes down
Drop(s) ==
    /\ drops < MaxDrops
    /\ IsActive(s)
    /\ active' = [active EXCEPT ![s] = FALSE]
    /\ drops' = drops + 1
    /\ UNCHANGED <<client, lock, closeCalls, broken, task, sessionOf,
                   work_queue, mainVars, diskVars>>

\* ------------------------------------------------------ the worker pool
\* the tasks a worker thread of self.executor is running
Running ==
    {t \in Threads : /\ task[t].kind \in {"connect", "poll"}
                     /\ task[t].pc \notin {"queued", "done"}}

\* an executor that starts a thread for every task
WorkerAvailable_m == TRUE

\* an executor with a single worker
WorkerAvailable_one == Running = {}

\* ThreadPoolExecutor(max_workers=10), line 172: a worker is free to take
\* the next task
WorkerAvailable == Cardinality(Running) < max_workers

\* a worker takes task t, the oldest submitted one, off the queue
PoolTake(t) ==
    /\ work_queue # << >>
    /\ t = Head(work_queue)
    /\ WorkerAvailable
    /\ work_queue' = Tail(work_queue)

\* a worker starts connect_server (lines 222-224): monitor.connect()
StartConnect(t) ==
    /\ task[t].kind = "connect"
    /\ task[t].pc = "queued"
    /\ PoolTake(t)
    /\ ConnectEnter(t, sessionOf[t], task[t])
    /\ UNCHANGED <<lock, closeCalls, sessionOf, mainVars, drops, diskVars>>

\* a worker starts get_server_status (line 275) and format_status_line
\* (lines 145-149): the "?" line for a session that is not connected, else
\* on to the first probe
StartPoll(t) ==
    /\ task[t].kind = "poll"
    /\ task[t].pc = "queued"
    /\ PoolTake(t)
    /\ task' = [task EXCEPT ![t] =
                  IF ~IsActive(sessionOf[t]) THEN Finished(@, "row", UnknownRow)
                  ELSE [@ EXCEPT !.cmd = "cpu", !.pc = "x_lock"]]
    /\ UNCHANGED <<sessVars, sessionOf, mainVars, drops, diskVars>>

\* ------------------------------------------------------- the main thread
\* lines 230-232 of connect_all: submit connect_server for the next monitor
ConnectSubmit ==
    /\ mpc = "connect_all"
    /\ task' = [task EXCEPT ![idx] = SubmittedFrame("connect")]
    /\ work_queue' = Append(work_queue, idx)
    /\ idx' = IF idx = NumHosts THEN 1 ELSE idx + 1
    /\ mpc' = IF idx = NumHosts THEN "connect_wait" ELSE mpc
    /\ UNCHANGED <<sessVars, sessionOf, server_status, printed, interrupted,
                   raised, yielded, escaped, drops, diskVars>>

\* an as_completed that hands over futures that are still running
FutureDone_m(h) == TRUE

\* as_completed (lines 235 and 295) hands over a future once its task has
\* finished
FutureDone(h) == task[h].pc = "done"

\* a connect_all that returns at the first finished future
ConnectAllDone_m(h) == TRUE

\* the loop of lines 235-236 ends: future h was the last of futures that
\* as_completed had to hand over
ConnectAllDone(h) == yielded \cup {h} = Hosts

\* lines 235-236 of connect_all: as_completed hands over a finished future
\* and future.result() returns or raises; after the last one connect_all
\* returns and monitor_all starts its first cycle (lines 280-288)
ConnectCollect(h) ==
    /\ mpc = "connect_wait"
    /\ FutureDone(h)
    /\ h \notin yielded
    /\ IF task[h].res.tag = "exc"
       THEN /\ raised' = "Exception"
            /\ mpc' = "main_finally"
            /\ yielded' = {}
       ELSE /\ raised' = raised
            /\ mpc' = IF ConnectAllDone(h) THEN "poll_submit" ELSE mpc
            /\ yielded' = IF ConnectAllDone(h) THEN {} ELSE yielded \cup {h}
    /\ idx' = 1
    /\ task' = IF mpc' = "poll_submit" THEN [t \in Threads |-> IdleFrame] ELSE task
    /\ UNCHANGED <<sessVars, sessionOf, work_queue, server_status, printed,
                   interrupted, escaped, drops, diskVars>>

\* lines 290-292 of monitor_all: submit get_server_status for the next monitor
PollSubmit ==
    /\ mpc = "poll_submit"
    /\ task' = [task EXCEPT ![idx] = SubmittedFrame("poll")]
    /\ work_queue' = Append(work_queue, idx)
    /\ idx' = IF idx = NumHosts THEN 1 ELSE idx + 1
    /\ mpc' = IF idx = NumHosts THEN "poll_wait" ELSE mpc
    /\ UNCHANGED <<sessVars, sessionOf, server_status, printed, interrupted,
                   raised, yielded, escaped, drops, diskVars>>

\* a cycle that prints as soon as one future has finished
FanInDone_m(h) == TRUE

\* the loop of lines 295-298 ends: future h was the last of futures_dict
\* that as_completed had to hand over
FanInDone(h) == yielded \cup {h} = Hosts

\* lines 295-298 of monitor_all: as_completed hands over a finished future;
\* future.result() returns its status, stored under its monitor, or raises
\* into the finally of line 309
PollCollect(h) ==
    /\ mpc = "poll_wait"
    /\ FutureDone(h)
    /\ h \notin yielded
    /\ IF task[h].res.tag = "exc"
       THEN /\ raised' = "Exception"
            /\ mpc' = "mon_finally"
            /\ yielded' = {}
            /\ server_status' = server_status
       ELSE /\ raised' = raised
            /\ mpc' = IF FanInDone(h) THEN "render" ELSE mpc
            /\ yielded' = yielded \cup {h}
            /\ server_status' =
                 Append(server_status, [monitor |-> h, status |-> task[h].res.row])
    /\ idx' = 1
    /\ UNCHANGED <<sessVars, task, sessionOf, work_queue, printed, interrupted,
                   escaped, drops, diskVars>>

\* server_status[monitor], for a monitor in server_status
StatusOf(m) ==
    server_status[CHOOSE i \in 1..Len(server_status) :
                    server_status[i].monitor = m].status

\* printing in the order the futures completed
RenderOrder_m == [i \in 1..NumHosts |-> server_status[i].monitor]

\* the monitors whose lines the loop of lines 301-303 prints, in its order
RenderOrder == [i \in 1..NumHosts |-> i]

\* lines 301-303 of monitor_all: print the next monitor's line, if it has one
Render ==
    /\ mpc = "render"
    /\ LET m == RenderOrder[idx] IN
       printed' = IF \E i \in 1..Len(server_status) : server_status[i].monitor = m
                  THEN Append(printed, [monitor |-> m, status |-> StatusOf(m)])
                  ELSE printed
    /\ idx' = IF idx = NumHosts THEN 1 ELSE idx + 1
    /\ mpc' = IF idx = NumHosts THEN "sleep" ELSE mpc
    /\ UNCHANGED <<sessVars, task, sessionOf, work_queue, server_status,
                   interrupted, raised, yielded, escaped, drops, diskVars>>

\* line 305, then lines 280-288 of the next cycle: the sleep ends, the
\* screen is cleared, server_status and futures_dict are new and empty
Sleep ==
    /\ mpc = "sleep"
    /\ mpc' = "poll_submit"
    /\ idx' = 1
    /\ server_status' = << >>
    /\ printed' = << >>
    /\ yielded' = {}
    /\ task' = [t \in Threads |-> IdleFrame]
    /\ UNCHANGED <<sessVars, sessionOf, work_queue, interrupted, raised,
                   escaped, drops, diskVars>>

\* a main without its finally: the interrupt ends the process
InterruptTarget_m(pc) == "exit"

\* where a KeyboardInterrupt takes the main thread: from connect_all to the
\* handler of line 320 and main's finally; from the loop of monitor_all to
\* the handler of line 307 and its finally; from the disconnect_all of line
\* 311 to main's handler and finally; from the disconnect_all of line 323
\* out of main
InterruptTarget(pc) ==
    CASE pc \in {"connect_all", "connect_wait"} -> "main_finally"
      [] pc \in {"poll_submit", "poll_wait", "render", "sleep"} -> "mon_finally"
      [] pc = "mon_finally" -> "main_finally"
      [] OTHER -> "exit"

\* the user's interrupt reaches the main thread; the locals of monitor_all
\* are left behind
Interrupt ==
    /\ ~interrupted
    /\ mpc # "exit"
    /\ interrupted' = TRUE
    /\ mpc' = InterruptTarget(mpc)
    /\ idx' = 1
    /\ raised' = IF mpc = "main_finally" THEN "KeyboardInterrupt" ELSE "none"
    /\ server_status' = << >>
    /\ printed' = << >>
    /\ yielded' = {}
    /\ UNCHANGED <<sessVars, task, sessionOf, work_queue, escaped, drops, diskVars>>

\* where the main thread goes when a disconnect_all has returned: from the
\* finally of monitor_all (line 311) to the finally of main (line 323), with
\* or without an exception in flight; from there out of main
AfterDisconnectAll(pc) == IF pc = "mon_finally" THEN "main_finally" ELSE "exit"

\* lines 241-245 of disconnect_all: disconnect() of the next monitor; an
\* exception leaving it is caught and logged
DisconnectStep ==
    /\ mpc \in {"mon_finally", "main_finally"}
    /\ \E closeRaised \in BOOLEAN :
         /\ active' = DisconnectActive(idx, closeRaised)
         /\ closeCalls' = DisconnectCloseCalls(idx)
         /\ escaped' = (escaped \/
                          (client[idx] # 0 /\ closeRaised /\ DisconnectEscapes(closeRaised)))
    /\ idx' = IF idx = NumHosts THEN 1 ELSE idx + 1
    /\ mpc' = IF idx = NumHosts THEN AfterDisconnectAll(mpc) ELSE mpc
    /\ UNCHANGED <<client, lock, broken, task, sessionOf, work_queue,
                   server_status, printed, interrupted, raised, yielded, drops,
                   diskVars>>

\* ------------------------------------------------------------ the program
Init ==
    /\ client = [s \in Hosts |-> 0]
    /\ active = [s \in Hosts |-> FALSE]
    /\ lock = [s \in Hosts |-> 0]
    /\ closeCalls = [s \in Hosts |-> 0]
    /\ broken = [s \in Hosts |-> FALSE]
    /\ task = [t \in Threads |-> IdleFrame]
    /\ sessionOf = [t \in Threads |-> t]
    /\ work_queue = << >>
    /\ mpc = "connect_all"
    /\ idx = 1
    /\ server_status = << >>
    /\ printed = << >>
    /\ interrupted = FALSE
    /\ raised = "none"
    /\ yielded = {}
    /\ escaped = FALSE
    /\ drops = 0
    /\ DiskIdle

Next ==
    \/ \E t \in Threads :
         \/ StartConnect(t)
         \/ StartPoll(t)
         \/ XEnter(t)
         \/ CWait(t)
         \/ XExec(t)
    \/ \E s \in Hosts : Drop(s)
    \/ ConnectSubmit
    \/ \E h \in Hosts : ConnectCollect(h)
    \/ PollSubmit
    \/ \E h \in Hosts : PollCollect(h)
    \/ Render
    \/ Sleep
    \/ Interrupt
    \/ DisconnectStep

Spec == Init /\ [][Next]_vars

\* ------------------------------------------------- the class on its own
\* a thread calls execute_command(cmd) on the session
Call(t) ==
    /\ task[t].pc = "idle"
    /\ client[sessionOf[t]] < MaxHandles
    /\ \E cmd \in Probes :
         task' = [task EXCEPT ![t] =
                    [IdleFrame EXCEPT !.kind = "call", !.pc = "x_lock", !.cmd = cmd]]
    /\ UNCHANGED <<sessVars, sessionOf, work_queue, mainVars, drops, diskVars>>

\* a thread calls disconnect() on the session (lines 71-78)
LibDisconnect(t) ==
    LET s == sessionOf[t] IN
    /\ task[t].pc = "idle"
    /\ closeCalls[s] < MaxCloses
    /\ \E closeRaised \in BOOLEAN :
         /\ active' = DisconnectActive(s, closeRaised)
         /\ closeCalls' = DisconnectCloseCalls(s)
         /\ escaped' = (escaped \/
                          (client[s] # 0 /\ closeRaised /\ DisconnectEscapes(closeRaised)))
    /\ UNCHANGED <<client, lock, broken, task, sessionOf, work_queue, mpc, idx,
                   server_status, printed, interrupted, raised, yielded, drops,
                   diskVars>>

SessionInit ==
    /\ client = [s \in Hosts |-> 0]
    /\ active = [s \in Hosts |-> FALSE]
    /\ lock = [s \in Hosts |-> 0]
    /\ closeCalls = [s \in Hosts |-> 0]
    /\ broken = [s \in Hosts |-> FALSE]
    /\ task = [t \in Threads |-> IdleFrame]
    /\ sessionOf = [t \in Threads |-> 1]
    /\ work_queue = << >>
    /\ mpc = "lib"
    /\ idx = 1
    /\ server_status = << >>
    /\ printed = << >>
    /\ interrupted = FALSE
    /\ raised = "none"
    /\ yielded = {}
    /\ escaped = FALSE
    /\ drops = 0
    /\ DiskIdle

SessionNext ==
    \/ \E t \in Threads :
         \/ Call(t)
         \/ LibDisconnect(t)
         \/ XEnter(t)
         \/ CWait(t)
         \/ XExec(t)
    \/ Drop(1)

SessionSpec == SessionInit /\ [][SessionNext]_vars

\* --------------------------------------- the disk probe on its own
\* format_status_line at line 151, its CPU and memory values in hand
DiskFrame ==
    [IdleFrame EXCEPT !.kind = "poll", !.pc = "x_exec", !.cmd = "disk",
                      !.cpu = get_cpu_usage("12.5").val,
                      !.mem = get_memory_usage(<<"8000", "4000", "4000">>).val]

\* lines 119-141: get_disk_usage parses the output and returns the dict, or
\* raises
GetDiskUsage ==
    /\ disk_usage.tag = "none"
    /\ disk_usage' =
         IF get_disk_usage(df_lines).ok
         THEN [tag |-> "dict", val |-> get_disk_usage(df_lines).val]
         ELSE [tag |-> "exc", val |-> << >>]
    /\ UNCHANGED <<df_lines, status_line, sessVars, task, sessionOf, work_queue,
                   mainVars, drops>>

\* lines 151-166: format_status_line with the output of the disk command
FormatStatusLine ==
    /\ disk_usage.tag # "none"
    /\ status_line.tag = "none"
    /\ status_line' = AfterReturn(DiskFrame, df_lines).res
    /\ UNCHANGED <<df_lines, disk_usage, sessVars, task, sessionOf, work_queue,
                   mainVars, drops>>

DiskInit ==
    /\ df_lines \in DfOutputs
    /\ disk_usage = NoDict
    /\ status_line = NoResult
    /\ client = [s \in Hosts |-> 0]
    /\ active = [s \in Hosts |-> FALSE]
    /\ lock = [s \in Hosts |-> 0]
    /\ closeCalls = [s \in Hosts |-> 0]
    /\ broken = [s \in Hosts |-> FALSE]
    /\ task = [t \in Threads |-> IdleFrame]
    /\ sessionOf = [t \in Threads |-> t]
    /\ work_queue = << >>
    /\ mpc = "lib"
    /\ idx = 1
    /\ server_status = << >>
    /\ printed = << >>
    /\ interrupted = FALSE
    /\ raised = "none"
    /\ yielded = {}
    /\ escaped = FALSE
    /\ drops = 0

DiskNext ==
    \/ GetDiskUsage
    \/ FormatStatusLine

DiskSpec == DiskInit /\ [][DiskNext]_vars

\* ------------------------------------------ the program left running
\* lines 88-90 have no timeout: exec_command or the read of its output may
\* never return; the task stays where it is, inside the with block
Hang(t) ==
    /\ task[t].pc = "x_exec"
    /\ task[t].kind = "poll"
    /\ IsActive(sessionOf[t])
    /\ task' = [task EXCEPT ![t] = [@ EXCEPT !.pc = "x_hung"]]
    /\ UNCHANGED <<sessVars, sessionOf, work_queue, mainVars, drops, diskVars>>

\* the steps of the worker running task t
Worker(t) ==
    \/ StartConnect(t)
    \/ StartPoll(t)
    \/ XEnter(t)
    \/ CWait(t)
    \/ XExec(t)

\* the steps of the main thread when the user does not interrupt
MainLoop ==
    \/ ConnectSubmit
    \/ \E h \in Hosts : ConnectCollect(h)
    \/ PollSubmit
    \/ \E h \in Hosts : PollCollect(h)
    \/ Render
    \/ Sleep

LiveNext ==
    \/ \E t \in Threads : Worker(t)
    \/ \E t \in Threads : Hang(t)
    \/ \E s \in Hosts : Drop(s)
    \/ MainLoop

\* The program with no interrupt, under the scheduling the interpreter
\* gives: a worker that can take a step takes it (a connection attempt has
\* a timeout, a command either ends or hangs for good), and so does the main
\* thread
LiveSpec ==
    /\ Init
    /\ [][LiveNext]_vars
    /\ \A t \in Threads : WF_vars(Worker(t))
    /\ WF_vars(MainLoop)

\* ----------------------------------------------------------- properties
Finallys == {"mon_finally", "main_finally"}

\* the tasks inside a connection attempt or a remote command
InFlight ==
    {t \in Threads : /\ task[t].kind \in {"connect", "poll"}
                     /\ task[t].pc \in {"c_wait", "x_exec"}}

\* the threads inside the with block of execute_command on session s
Inside(s) ==
    {t \in Threads : /\ sessionOf[t] = s
                     /\ task[t].kind # "connect"
                     /\ task[t].pc \in {"c_wait", "x_exec"}}

\* C1: while a cycle prints, server_status holds exactly one status per
\* configured host and the lines printed so far are those of the first
\* monitors in configuration order; when the cycle has printed (it sleeps),
\* exactly NumHosts lines are out, the i-th being the i-th monitor's status,
\* whatever failed and in whatever order the futures completed.
C1_SnapshotOrder ==
    /\ mpc = "render" =>
         /\ Len(server_status) = NumHosts
         /\ {server_status[i].monitor : i \in 1..Len(server_status)} = Hosts
         /\ Len(printed) = idx - 1
         /\ \A i \in 1..Len(printed) : printed[i].monitor = i
    /\ mpc = "sleep" =>
         /\ Len(printed) = NumHosts
         /\ \A i \in 1..Len(printed) :
              printed[i].monitor = i /\ printed[i].status = StatusOf(i)

\* a cycle has printed all its lines; the futures completed out of
\* configuration order, one host has live data and another failed
C1_Witness ==
    /\ mpc = "sleep"
    /\ Len(printed) = NumHosts
    /\ server_status[1].monitor # 1
    /\ \E i, j \in 1..NumHosts : printed[i].status.live /\ ~printed[j].status.live

\* C2 (state part): no task's future holds an exception, the main thread
\* unwinds with none, and it has left the loop only if the user interrupted
C2_NoEscape ==
    /\ \A t \in Threads : task[t].res.tag # "exc"
    /\ raised = "none"
    /\ mpc \in Finallys \cup {"exit"} => interrupted

\* C2 (step part): a polling task ends with a status line; the line has live
\* data only when the disk probe, the last one, returned on an active
\* session, so every failure before that ends in the "?" line
C2_PollEnds ==
    \A t \in Threads :
      (task[t].kind = "poll" /\ task[t].pc # "done" /\ task'[t].pc = "done") =>
         /\ task'[t].res.tag = "row"
         /\ task'[t].res.row.live =>
              (task[t].pc = "x_exec" /\ task[t].cmd = "disk" /\ IsActive(sessionOf[t]))
         /\ ~task'[t].res.row.live => task'[t].res.row = UnknownRow

\* C2: a failure of a host's collection (connection, command or parsing)
\* becomes that host's "?" line; it never leaves the task, never aborts the
\* cycle and never ends the loop.
C2_FailureIsolation == []C2_NoEscape /\ [][C2_PollEnds]_vars

\* a cycle has printed; a connected host shows "?" (a probe failed on a live
\* session) and so does a host whose only connection attempt left it
\* disconnected
C2_Witness ==
    /\ mpc = "sleep"
    /\ Len(printed) = NumHosts
    /\ drops = 0
    /\ \E h, g \in Hosts :
         /\ IsActive(h) /\ printed[h].status = UnknownRow
         /\ client[g] = 1 /\ ~active[g] /\ printed[g].status = UnknownRow

\* C3, as claimed: a polling task that starts on a session that is not
\* connected goes on to a connection attempt (it is inside connect(), or on
\* its way into execute_command) instead of ending without one.
C3_ReattemptEveryCycle ==
    [][\A t \in Threads :
         (/\ task[t].kind = "poll"
          /\ task[t].pc = "queued"
          /\ task'[t].pc # "queued"
          /\ ~IsActive(sessionOf[t]))
            => task'[t].pc \in {"x_lock", "c_wait"}]_vars

\* C4, as claimed, for the sessions whose client was closed at all: when
\* main has ended, close() has been called on each of them exactly once.
C4_ClosedExactlyOnce ==
    mpc = "exit" => \A h \in Hosts : closeCalls[h] >= 1 => closeCalls[h] = 1

\* C5: at most max_workers tasks are inside a connection attempt or a remote
\* command at once.
C5_PoolBound == Cardinality(InFlight) <= max_workers

\* a polling cycle with max_workers tasks inside a remote operation and a
\* further host's task waiting in the queue
C5_Witness ==
    /\ mpc = "poll_wait"
    /\ Cardinality(InFlight) = max_workers
    /\ work_queue # << >>

\* C6: on every session at most one thread is inside execute_command's with
\* block, it is the holder of the lock, and the lock is free whenever no
\* thread is inside (so it was released on every return and raise).
C6_OneCommandPerSession ==
    \A s \in Hosts :
      /\ Cardinality(Inside(s)) <= 1
      /\ lock[s] = 0 <=> Inside(s) = {}
      /\ lock[s] # 0 => Inside(s) = {lock[s]}

\* one thread runs a command, a second waits for the lock, and a third's call
\* has raised before
C6_Witness ==
    \E t1, t2, t3 \in Threads :
      /\ sessionOf[t1] = sessionOf[t2]
      /\ task[t1].kind = "call" /\ task[t1].pc = "x_exec"
      /\ task[t2].kind = "call" /\ task[t2].pc = "x_lock"
      /\ task[t3].pc = "idle" /\ task[t3].res.tag = "exc"

\* C7: a call of execute_command that found the connection absent or
\* inactive has made exactly one connection attempt (one new client) by the
\* time it connects and by the time it runs the command; a call that found
\* it active has made none and the session has the client it had.
C7_ReconnectOnDemand ==
    \A t \in Threads :
      LET s == sessionOf[t] IN
      task[t].kind = "call" =>
        /\ task[t].pc = "c_wait" =>
             (task[t].sawInactive /\ task[t].attempts = 1
                /\ client[s] = task[t].client0 + 1)
        /\ task[t].pc = "x_exec" =>
             IF task[t].sawInactive
             THEN task[t].attempts = 1 /\ client[s] = task[t].client0 + 1
             ELSE task[t].attempts = 0 /\ client[s] = task[t].client0

\* a call that found a once-connected session inactive is about to run its
\* command, after its one attempt, while another call has returned output
C7_Witness ==
    \E t, u \in Threads :
      /\ task[t].kind = "call" /\ task[t].pc = "x_exec"
      /\ task[t].sawInactive /\ task[t].client0 = 1 /\ IsActive(sessionOf[t])
      /\ task[u].pc = "idle" /\ task[u].res.tag = "out"

\* C8 (state part): after a call raised on a transport failure the session
\* is not active and no command runs on it until a connection attempt
C8_StaysDisconnected ==
    \A s \in Hosts :
      broken[s] =>
        /\ ~IsActive(s)
        /\ \A t \in Threads : sessionOf[t] = s => task[t].pc # "x_exec"

\* C8 (step part): the step in which the command ends with the transport
\* down ends the call with an exception, releases the lock and leaves the
\* session not active
C8_FailureStep ==
    \A t \in Threads :
      LET s == sessionOf[t] IN
      (/\ task[t].kind = "call"
       /\ task[t].pc = "x_exec"
       /\ task'[t].pc # "x_exec"
       /\ ~(client'[s] # 0 /\ active'[s]))
         => /\ task'[t].pc = "idle"
            /\ task'[t].res.tag = "exc"
            /\ broken'[s]
            /\ lock'[s] = 0

C9_ConnectStep ==
    \A t \in Threads :
      LET s == sessionOf[t] IN
      /\ (task[t].pc = "c_wait" /\ task'[t].pc # "c_wait") =>
           IF task'[t].pc = "x_exec"
           THEN client'[s] # 0 /\ active'[s]
           ELSE ~active'[s] /\ task'[t].res.tag = "exc"
      /\ (task[t].pc # "c_wait" /\ task'[t].pc = "c_wait") =>
           client'[s] > client[s]
      /\ (task[t].pc = "x_lock" /\ task'[t].pc # "x_lock" /\ ~IsActive(s)) =>
           task'[t].pc = "c_wait"

C9_Connect == [][C9_ConnectStep]_vars

\* with no drop and no close, a call has raised and the session is now
\* active on its second client, a command about to run on it
C9_Witness ==
    \E t, u \in Threads :
      /\ task[t].pc = "x_exec" /\ task[t].sawInactive
      /\ client[sessionOf[t]] = 2 /\ IsActive(sessionOf[t])
      /\ task[u].pc = "idle" /\ task[u].res.tag = "exc"
      /\ drops = 0
      /\ closeCalls[sessionOf[t]] = 0

\* C10 (step part): every step of disconnect_all calls close() on the
\* monitor's client if it has one, raises nothing and goes on to the next
\* monitor, or returns after the last
C10_DisconnectStep ==
    (/\ mpc \in Finallys
     /\ (mpc' # mpc \/ idx' # idx)
     /\ interrupted' = interrupted)
       => /\ raised' = raised
          /\ client[idx] # 0 => closeCalls'[idx] = closeCalls[idx] + 1
          /\ IF idx < NumHosts THEN mpc' = mpc /\ idx' = idx + 1
             ELSE mpc' = AfterDisconnectAll(mpc)

\* C10: disconnect() lets no exception escape, in whatever state the session
\* is and however often it is called; disconnect_all raises nothing and
\* goes through every monitor, also after a close() that raised.
C10_DisconnectNeverRaises ==
    [](~escaped /\ (mpc \in Finallys => raised = "none")) /\ [][C10_DisconnectStep]_vars

\* the first disconnect_all is at its last monitor: the close() of the first
\* monitor raised (called once, its first client still active, no task
\* connecting it) and the second monitor's close() was called after that
C10_Witness ==
    /\ mpc = "mon_finally"
    /\ idx = NumHosts
    /\ closeCalls[1] = 1 /\ client[1] = 1 /\ IsActive(1)
    /\ task[1].kind # "connect"
    /\ closeCalls[2] = 1

\* C11 (state part): while connect_all submits, exactly the monitors before
\* the loop's position have a connect task; while it waits, every monitor
\* has one; the queue holds each unstarted task once; no connect task's
\* future holds an exception
C11_OneTaskPerHost ==
    /\ mpc = "connect_all" =>
         \A h \in Hosts : (task[h].kind = "connect") <=> (h < idx)
    /\ mpc = "connect_wait" => \A h \in Hosts : task[h].kind = "connect"
    /\ mpc \in {"connect_all", "connect_wait"} =>
         /\ \A i, j \in 1..Len(work_queue) :
              work_queue[i] = work_queue[j] => i = j
         /\ {work_queue[i] : i \in 1..Len(work_queue)} =
              {h \in Hosts : task[h].pc = "queued"}
    /\ \A h \in Hosts : task[h].kind = "connect" => task[h].res.tag # "exc"

\* C11 (step part): connect_all is left, without an interrupt, only by
\* returning, with nothing raised and every connect task finished with True
\* or False; a polling task is submitted only when no connect task is left
C11_ReturnStep ==
    /\ (mpc = "connect_wait" /\ mpc' # "connect_wait" /\ interrupted' = interrupted) =>
         /\ mpc' = "poll_submit"
         /\ raised' = "none"
         /\ \A h \in Hosts :
              /\ task[h].kind = "connect"
              /\ task[h].pc = "done"
              /\ task[h].res.tag \in {"True", "False"}
    /\ \A h \in Hosts :
         (task'[h].kind = "poll" /\ task[h].kind # "poll") =>
            \A g \in Hosts : task[g].kind # "connect"

\* C11: connect_all submits one connect task per monitor, returns only when
\* all of them have finished, raises nothing whichever of them failed, and
\* the first polling task is submitted after it returned.
C11_ConnectAll == []C11_OneTaskPerHost /\ [][C11_ReturnStep]_vars

\* connect_all is about to take its last future: every connect task has
\* finished, one with False (its session is not connected), one with True
C11_Witness ==
    /\ mpc = "connect_wait"
    /\ Cardinality(yielded) = NumHosts - 1
    /\ \A h \in Hosts : task[h].pc = "done"
    /\ \E h, g \in Hosts :
         /\ task[h].res.tag = "False" /\ ~IsActive(h)
         /\ task[g].res.tag = "True"

\* the positions of the main thread inside the loop of monitor_all
CyclePcs == {"poll_submit", "poll_wait", "render", "sleep"}

\* C12 (state part): while a cycle submits, the monitors before the loop's
\* position have this cycle's task and the others have none (no task of an
\* earlier cycle is left); while it prints and sleeps, every task of the
\* cycle has completed; the queue holds each unstarted task once, so a host
\* never has two tasks
C12_OneCycle ==
    /\ mpc = "poll_submit" =>
         \A h \in Hosts :
           IF h < idx THEN task[h].kind = "poll" ELSE task[h] = IdleFrame
    /\ mpc = "poll_wait" => \A h \in Hosts : task[h].kind = "poll"
    /\ mpc \in {"render", "sleep"} =>
         \A h \in Hosts : task[h].kind = "poll" /\ task[h].pc = "done"
    /\ mpc \in CyclePcs =>
         /\ \A i, j \in 1..Len(work_queue) :
              work_queue[i] = work_queue[j] => i = j
         /\ {work_queue[i] : i \in 1..Len(work_queue)} =
              {h \in Hosts : task[h].pc = "queued"}

\* C12 (step part): a task is submitted for a host only when the host has
\* none; the next cycle begins only from the sleep of a cycle that printed
\* all its lines and whose tasks have all completed
C12_SubmitStep ==
    /\ \A h \in Hosts :
         (task'[h].pc = "queued" /\ task[h].pc # "queued") => task[h] = IdleFrame
    /\ (mpc \in {"poll_wait", "render", "sleep"} /\ mpc' = "poll_submit") =>
         /\ mpc = "sleep"
         /\ Len(printed) = NumHosts
         /\ \A h \in Hosts : task[h].pc = "done"

\* C12: polling cycles never overlap: a cycle's tasks are submitted only
\* after every task of the cycle before has completed, its lines are printed
\* and its sleep has ended; every polling task in flight belongs to the
\* current cycle and a host has at most one.
C12_NoOverlap == []C12_OneCycle /\ [][C12_SubmitStep]_vars

\* a later cycle is submitting: the first monitor's new task runs a command
\* while the last monitor, whose task is not yet submitted, had a command
\* fail in an earlier cycle
C12_Witness ==
    /\ mpc = "poll_submit"
    /\ idx = NumHosts
    /\ task[1].kind = "poll" /\ task[1].pc = "x_exec"
    /\ broken[NumHosts]
    /\ task[NumHosts] = IdleFrame

\* the polling tasks whose command never returns
Hung == {t \in Threads : task[t].pc = "x_hung"}

\* C13, as claimed: every submitted polling task starts and completes unless
\* the command of its own host hangs, whatever the other hosts do and
\* whatever the number of hosts and the width of the pool.
C13_OnlyOwnEntryDelayed ==
    \A g \in Threads :
      (task[g].kind = "poll" /\ task[g].pc = "queued")
         ~> (task[g].pc = "done" \/ g \in Hung)

\* C13, amended: every submitted polling task starts and completes unless the
\* command of its own host hangs or max_workers tasks are hung, holding
\* every worker of the pool.
C13_DelayedOnlyByFullPool ==
    \A g \in Threads :
      (task[g].kind = "poll" /\ task[g].pc = "queued")
         ~> (task[g].pc = "done" \/ g \in Hung \/ Cardinality(Hung) >= max_workers)

\* with more hosts than workers, the first host's command hangs and the
\* tasks of all the others have completed and been collected, one with live
\* data
C13_Witness ==
    /\ mpc = "poll_wait"
    /\ Hung = {1}
    /\ yielded = Hosts \ {1}
    /\ \A g \in Hosts \ {1} : task[g].pc = "done"
    /\ task[NumHosts].res.row.live
    /\ NumHosts > max_workers

\* C14 (state part): once the interrupt has arrived the main thread is in a
\* disconnect_all or has left main, and a task on its way into
\* execute_command finds the lock of its session free
C14_Stopped ==
    /\ interrupted => mpc \in Finallys \cup {"exit"}
    /\ \A t \in Threads :
         (task[t].kind = "poll" /\ task[t].pc = "x_lock") => lock[sessionOf[t]] = 0

\* C14 (step part): from the interrupt on no task is submitted, and a task
\* that has not finished keeps its frame until it does; the loop of
\* monitor_all is left only into the disconnect_all of its finally, that
\* one only into the disconnect_all of main's finally, connect_all only by
\* returning or into main's finally, and main is left only from its
\* finally, after the last monitor unless the interrupt arrives there
C14_ShutdownStep ==
    /\ interrupted' =>
         \A h \in Hosts :
           /\ task'[h].pc = "queued" => task[h] = task'[h]
           /\ task[h].pc \notin {"idle", "done"} =>
                (task'[h].kind = task[h].kind /\ task'[h].pc # "idle")
    /\ (mpc \in CyclePcs /\ mpc' \notin CyclePcs) =>
         (mpc' = "mon_finally" /\ idx' = 1)
    /\ (mpc = "mon_finally" /\ mpc' # mpc) => (mpc' = "main_finally" /\ idx' = 1)
    /\ (mpc \in {"connect_all", "connect_wait"}
          /\ mpc' \notin {"connect_all", "connect_wait", "poll_submit"}) =>
         (mpc' = "main_finally" /\ idx' = 1)
    /\ (mpc # "exit" /\ mpc' = "exit") =>
         /\ mpc = "main_finally"
         /\ interrupted' = interrupted => idx = NumHosts

\* C14: after the interrupt no polling task is submitted, the tasks in
\* flight go on to their end, and main is not left before disconnect_all
\* has been reached.
C14_Cancellation == []C14_Stopped /\ [][C14_ShutdownStep]_vars

\* main has ended after an interrupt in a cycle: both disconnect_all ran
\* over every monitor while one polling task is still inside a command and
\* another has not started
C14_Witness ==
    /\ mpc = "exit"
    /\ interrupted
    /\ \A h \in Hosts : closeCalls[h] = 2
    /\ \E t, u \in Threads :
         /\ task[t].kind = "poll" /\ task[t].pc = "x_exec"
         /\ task[u].kind = "poll" /\ task[u].pc = "queued"

\* C15 (state part): while any line of the cycle is out, every task
\* submitted in the cycle has completed and its status has been collected
C15_RowsAfterFanIn ==
    (mpc \in CyclePcs /\ printed # << >>) =>
       /\ \A h \in Hosts : task[h].kind = "poll" /\ task[h].pc = "done"
       /\ yielded = Hosts
       /\ Len(server_status) = NumHosts

\* C15 (step part): a line is printed only in a state where every task of
\* the cycle has completed
C15_PrintStep ==
    printed' # printed /\ printed' # << >> =>
       \A h \in Hosts : task[h].pc = "done" /\ task[h].res.tag = "row"

\* C15: in a cycle that is not interrupted no line is printed before every
\* task of the cycle has completed, and a cycle in which no command hangs
\* collects all its futures and prints all its lines.
C15_FanIn ==
    /\ []C15_RowsAfterFanIn
    /\ [][C15_PrintStep]_vars
    /\ (mpc = "poll_submit") ~> ((mpc = "sleep" /\ Len(printed) = NumHosts) \/ Hung # {})

\* the first line of a cycle is out: all tasks have completed, the last
\* monitor's first, and one of them after a failure
C15_Witness ==
    /\ mpc = "render"
    /\ Len(printed) = 1
    /\ server_status[1].monitor = NumHosts
    /\ \E h \in Hosts : IsActive(h) /\ StatusOf(h) = UnknownRow
    /\ Hung = {}

\* the values get_cpu_usage and get_memory_usage can return
OkCpu == {get_cpu_usage(o).val : o \in {x \in CpuOutputs : get_cpu_usage(x).ok}}
OkMem == {get_memory_usage(o).val : o \in {x \in MemOutputs : get_memory_usage(x).ok}}
\* the lines format_status_line can build from a disk command's output
OkRows(cpu, mem) ==
    {LiveRow(cpu, mem, RootDisk(get_disk_usage(o).val).val) :
       o \in {x \in DiskOutputs : /\ get_disk_usage(x).ok
                                  /\ RootDisk(get_disk_usage(x).val).ok}}

\* C16 (step part), for a polling task t: it starts with the CPU command or
\* ends at once; it goes from a command to the next one only as CPU to
\* memory with a CPU value, or memory to disk with a memory value; it ends
\* with live data only from the disk command, with the values of the two
\* before; every other way out of a command or a connection attempt ends
\* the task with the "?" line
C16_TaskStep(t) ==
    LET f == task[t]
        g == task'[t]
    IN  (f.kind = "poll" /\ g.kind = "poll" /\ g # f) =>
          CASE f.pc = "queued" ->
                 \/ g.pc = "x_lock" /\ g.cmd = "cpu"
                 \/ g.pc = "done" /\ g.res.row = UnknownRow
            [] f.pc = "x_lock" ->
                 g.pc \in {"c_wait", "x_exec"} /\ g.cmd = f.cmd
            [] f.pc = "c_wait" ->
                 \/ g.pc = "x_exec" /\ g.cmd = f.cmd
                 \/ g.pc = "done" /\ g.res.row = UnknownRow
            [] f.pc = "x_exec" ->
                 \/ /\ g.pc = "x_lock"
                    /\ \/ f.cmd = "cpu" /\ g.cmd = "mem" /\ g.cpu \in OkCpu
                       \/ /\ f.cmd = "mem" /\ g.cmd = "disk"
                          /\ g.mem \in OkMem /\ g.cpu = f.cpu /\ f.cpu \in OkCpu
                 \/ /\ g.pc = "done"
                    /\ g.res.row.live
                    /\ f.cmd = "disk"
                    /\ f.cpu \in OkCpu /\ f.mem \in OkMem
                    /\ g.res.row \in OkRows(f.cpu, f.mem)
                 \/ g.pc = "done" /\ g.res.row = UnknownRow
            [] OTHER -> FALSE

\* C16: a host's collection runs the CPU, the memory and the disk command
\* in this order, one after the other; a line with live data comes only
\* after all three returned; after a failed probe no further one is run.
C16_ProbeOrder == [][\A t \in Threads : C16_TaskStep(t)]_vars

\* one polling task is inside its disk command with a CPU and a memory
\* value in hand; another has ended with the "?" line on a session that is
\* still connected, so a probe of it failed
C16_Witness ==
    \E t, u \in Threads :
      /\ task[t].kind = "poll" /\ task[t].pc = "x_exec" /\ task[t].cmd = "disk"
      /\ task[t].cpu \in OkCpu /\ task[t].mem \in OkMem
      /\ task[u].kind = "poll" /\ task[u].pc = "done"
      /\ task[u].res.row = UnknownRow /\ IsActive(sessionOf[u])
      /\ drops = 0 /\ ~interrupted

\* the lines of the output with six tokens or more, by index
ParsedLines == {i \in 1..Len(df_lines) : Len(df_lines[i]) >= 6}
\* one of them has a usage field that is no number
DiskRaises == \E i \in ParsedLines : df_lines[i][5] \notin {"50%", "10%"}
MountOf(i) == df_lines[i][6]
\* the last and the first line reporting mount point m
LastOf(m) ==
    CHOOSE i \in ParsedLines :
      MountOf(i) = m /\ \A j \in ParsedLines : MountOf(j) = m => j <= i
FirstOf(m) ==
    CHOOSE i \in ParsedLines :
      MountOf(i) = m /\ \A j \in ParsedLines : MountOf(j) = m => j >= i
\* the entry a line stands for
EntryOf(i) ==
    [filesystem |-> df_lines[i][1], total |-> df_lines[i][2],
     used |-> df_lines[i][3], available |-> df_lines[i][4],
     usage_percent |-> IF df_lines[i][5] = "50%" THEN 500 ELSE 100]
\* the line whose entry is to be shown: the last one for "/", else the last
\* one for the mount point that was reported first
RootLine ==
    IF \E i \in ParsedLines : MountOf(i) = "/" THEN LastOf("/")
    ELSE LastOf(MountOf(CHOOSE i \in ParsedLines : \A j \in ParsedLines : i <= j))

\* C17: get_disk_usage skips the lines with fewer than six tokens, keeps
\* one entry per mount point, the one of its last line, in the order the
\* mount points first appeared; format_status_line shows the entry of "/"
\* if there is one, else the first entry, and the "?" line, with no
\* exception, when there is no entry or the parsing failed.
C17_RootDisk ==
    /\ disk_usage.tag # "none" =>
         IF DiskRaises THEN disk_usage.tag = "exc"
         ELSE /\ disk_usage.tag = "dict"
              /\ Len(disk_usage.val) = Cardinality({MountOf(i) : i \in ParsedLines})
              /\ \A k \in 1..Len(disk_usage.val) :
                   /\ \E i \in ParsedLines : MountOf(i) = disk_usage.val[k].key
                   /\ disk_usage.val[k].entry = EntryOf(LastOf(disk_usage.val[k].key))
                   /\ \A l \in 1..Len(disk_usage.val) :
                        k < l => FirstOf(disk_usage.val[k].key)
                                   < FirstOf(disk_usage.val[l].key)
    /\ status_line.tag # "none" =>
         /\ status_line.tag = "row"
         /\ IF DiskRaises \/ ParsedLines = {}
            THEN status_line.row = UnknownRow
            ELSE /\ status_line.row.live
                 /\ status_line.row.disk_used = df_lines[RootLine][3]
                 /\ status_line.row.disk_total = df_lines[RootLine][2]

\* no line for "/": a short line was skipped, "/data" was reported twice
\* and the line shown is its second one
C17_Witness ==
    /\ df_lines = <<L_short, L_data, L_data2>>
    /\ disk_usage.tag = "dict"
    /\ Len(disk_usage.val) = 1
    /\ status_line.tag = "row"
    /\ status_line.row.disk_used = "4G"

\* C18, as claimed: once disconnect_all has closed a session's client, no
\* polling task opens a connection on that session again, so the session is
\* not active when the shutdown has finished.
C18_NoReopenAfterClose ==
    [][\A t \in Threads :
         (/\ task[t].kind = "poll"
          /\ interrupted
          /\ closeCalls[sessionOf[t]] >= 1
          /\ ~IsActive(sessionOf[t]))
            => ~(client'[sessionOf[t]] # 0 /\ active'[sessionOf[t]])]_vars

\* C19, as claimed: while a thread holds a session's lock and its command
\* is executing, no step calls close() on that session's client.
C19_NoCloseDuringCommand ==
    [][\A s \in Hosts :
         (/\ lock[s] # 0
          /\ task[lock[s]].pc = "x_exec"
          /\ IsActive(s))
            => closeCalls'[s] = closeCalls[s]]_vars

====
